---- MODULE Spec2Model ----
\* Lesik Cache Agent (src/src/index.js): a state-machine model of the agent's
\* startup, its WebSocket connection life cycle, the message dispatcher and the
\* four cache file operations over a small file system.
EXTENDS Integers, Sequences, FiniteSets, TLC

\* ------------------------------------------------------------------ bounds
\* Inbound messages delivered to the agent in one run.
MaxMsgs == 2

\* ------------------------------------------------------------------ values
\* JavaScript's null and undefined for the string-valued variables.
Null == "null"
Undefined == "undefined"
\* An optional value is a sequence of length 0 (undefined) or 1.
None == <<>>
Some(v) == <<v>>
IsSome(o) == Len(o) = 1
Get(o) == o[1]

\* ------------------------------------------------------------------ paths
\* A path segment is a sequence of characters, a path a sequence of segments;
\* the supplied string "../bc" is << DOTDOT, <<"b","c">> >>, "" is << >>.
DOT == <<".">>
DOTDOT == <<".", ".">>
SegA == <<"a">>
SegB == <<"b">>
SegBC == <<"b", "c">>
SegX == <<"x">>
SegQ == <<"q">>

\* path.normalize of an absolute path: "." and empty segments vanish, ".."
\* removes the segment before it and is dropped at the top.
RECURSIVE NormalizeSegs(_, _)
NormalizeSegs(segs, acc) ==
    IF segs = <<>> THEN acc
    ELSE LET s == Head(segs) IN
         IF s = DOT \/ s = <<>> THEN NormalizeSegs(Tail(segs), acc)
         ELSE IF s = DOTDOT
              THEN NormalizeSegs(Tail(segs),
                                 IF acc = <<>> THEN acc
                                 ELSE SubSeq(acc, 1, Len(acc) - 1))
              ELSE NormalizeSegs(Tail(segs), Append(acc, s))

\* path.join(base, rel): concatenate with a separator, then normalize.
PathJoin(base, rel) == NormalizeSegs(base \o rel, <<>>)

\* path.resolve of an absolute argument.
PathResolve(p) == NormalizeSegs(p, <<>>)

\* path.dirname of a normalized absolute path.
PathDirname(p) == IF p = <<>> THEN p ELSE SubSeq(p, 1, Len(p) - 1)

\* The string of an absolute path: "/" before every segment; "/" alone at the top.
RECURSIVE Flatten(_)
Flatten(p) == IF p = <<>> THEN <<>> ELSE <<"/">> \o Head(p) \o Flatten(Tail(p))

PathString(p) == IF p = <<>> THEN <<"/">> ELSE Flatten(p)

\* String.prototype.startsWith on character sequences.
StartsWith(s, prefix) ==
    /\ Len(prefix) <= Len(s)
    /\ SubSeq(s, 1, Len(prefix)) = prefix

\* Mutant: the target must extend the root by a separator, so the root itself
\* is rejected.
GuardPasses_Separator(targetPath, root) ==
    StartsWith(PathString(targetPath), PathString(root) \o <<"/">>)

\* The containment test the three path-taking operations make (the negation of
\* the condition that throws "Access denied").
GuardPasses(targetPath, root) ==
    StartsWith(PathString(targetPath), PathString(root))

\* Component-wise containment: targetPath is root or lies in root's tree.
IsInside(targetPath, root) ==
    /\ Len(root) <= Len(targetPath)
    /\ SubSeq(targetPath, 1, Len(root)) = root

\* ------------------------------------------------------------------ file system
\* The codes of the file-system errors.
ENOENT == <<"E", "N", "O", "E", "N", "T">>
ENOTDIR == <<"E", "N", "O", "T", "D", "I", "R">>
EISDIR == <<"E", "I", "S", "D", "I", "R">>
EEXIST == <<"E", "E", "X", "I", "S", "T">>

\* A file system is a function from the absolute paths that exist to entries.
DirEntry == [isDir |-> TRUE, bytes |-> <<>>]
FileEntry(b) == [isDir |-> FALSE, bytes |-> b]

Exists(f, p) == p \in DOMAIN f
IsDir(f, p) == Exists(f, p) /\ f[p].isDir
IsFile(f, p) == Exists(f, p) /\ ~f[p].isDir

\* The names of the direct children of p.
Children(f, p) ==
    {q[Len(q)] : q \in {r \in DOMAIN f : Len(r) = Len(p) + 1 /\ SubSeq(r, 1, Len(p)) = p}}

\* Some enumeration of a finite set: the order readdir lists a directory in.
RECURSIVE Listing(_)
Listing(S) ==
    IF S = {} THEN <<>>
    ELSE LET x == CHOOSE y \in S : TRUE IN <<x>> \o Listing(S \ {x})

\* What fs.statSync reports as the size of a directory (one block).
DirStatSize == 4096

\* fs.statSync(p).size.
StatSize(f, p) == IF f[p].isDir THEN DirStatSize ELSE Len(f[p].bytes)

FsPut(f, p, e) == [q \in DOMAIN f \cup {p} |-> IF q = p THEN e ELSE f[q]]

\* fs.mkdirSync(p, {recursive: true}): create p and its missing ancestors; fails
\* when a component of p exists and is a file.
RECURSIVE MkdirP(_, _, _)
MkdirP(f, p, n) ==
    IF n > Len(p) THEN [err |-> None, fs |-> f]
    ELSE LET q == SubSeq(p, 1, n) IN
         IF IsFile(f, q)
         THEN [err |-> Some(IF n = Len(p) THEN EEXIST ELSE ENOTDIR), fs |-> f]
         ELSE MkdirP(IF Exists(f, q) THEN f ELSE FsPut(f, q, DirEntry), p, n + 1)

\* fs.readdirSync(p): the listing, or the error it throws.
Readdir(f, p) ==
    IF ~Exists(f, p) THEN [err |-> Some(ENOENT), names |-> <<>>]
    ELSE IF ~f[p].isDir THEN [err |-> Some(ENOTDIR), names |-> <<>>]
    ELSE [err |-> None, names |-> Listing(Children(f, p))]

\* ------------------------------------------------------------------ base64
\* Base64 text is a sequence of sextets 0..63 and padding characters.
Pad == 64

\* Buffer.prototype.toString('base64').
RECURSIVE Base64Encode(_)
Base64Encode(b) ==
    IF Len(b) = 0 THEN <<>>
    ELSE IF Len(b) = 1
         THEN <<b[1] \div 4, (b[1] % 4) * 16, Pad, Pad>>
    ELSE IF Len(b) = 2
         THEN <<b[1] \div 4, (b[1] % 4) * 16 + b[2] \div 16, (b[2] % 16) * 4, Pad>>
    ELSE <<b[1] \div 4, (b[1] % 4) * 16 + b[2] \div 16,
           (b[2] % 16) * 4 + b[3] \div 64, b[3] % 64>>
         \o Base64Encode(SubSeq(b, 4, Len(b)))

\* The sextets before the first padding character.
RECURSIVE UpToPad(_)
UpToPad(t) ==
    IF t = <<>> \/ Head(t) = Pad THEN <<>> ELSE <<Head(t)>> \o UpToPad(Tail(t))

RECURSIVE DecodeSextets(_)
DecodeSextets(t) ==
    IF Len(t) < 2 THEN <<>>
    ELSE IF Len(t) = 2 THEN <<t[1] * 4 + t[2] \div 16>>
    ELSE IF Len(t) = 3
         THEN <<t[1] * 4 + t[2] \div 16, (t[2] % 16) * 16 + t[3] \div 4>>
    ELSE <<t[1] * 4 + t[2] \div 16, (t[2] % 16) * 16 + t[3] \div 4,
           (t[3] % 4) * 64 + t[4]>>
         \o DecodeSextets(SubSeq(t, 5, Len(t)))

\* Mutant: the padding is decoded as if it were data.
Base64Decode_KeepPad(t) == DecodeSextets(t)

\* Buffer.from(text, 'base64').
Base64Decode(t) == DecodeSextets(UpToPad(t))

\* ------------------------------------------------------------------ operations
\* What an operation did: ok with its result, or the message of the error it
\* threw; the file system it leaves and the file-system calls it made, in order.
Returned(val, f, calls) ==
    [ok |-> TRUE, data |-> Some(val), error |-> None, fs |-> f, calls |-> calls]
\* Mutant: an error thrown without a message.
Thrown_NoMessage(message, f, calls) ==
    [ok |-> FALSE, data |-> None, error |-> None, fs |-> f, calls |-> calls]

Thrown(message, f, calls) ==
    [ok |-> FALSE, data |-> None, error |-> Some(message), fs |-> f, calls |-> calls]

\* Error messages are character sequences. FileNotFound is followed by the
\* supplied path; the action's name after UnknownAction and the texts Node
\* puts after an error code are left out.
AccessDenied ==
    <<"A", "c", "c", "e", "s", "s", " ", "d", "e", "n", "i", "e", "d", ":", " ", "p", "a", "t", "h", " ", "t",
      "r", "a", "v", "e", "r", "s", "a", "l", " ", "a", "t", "t", "e", "m", "p", "t">>
FileNotFound == <<"F", "i", "l", "e", " ", "n", "o", "t", " ", "f", "o", "u", "n", "d", ":", " ">>
UnknownAction == <<"U", "n", "k", "n", "o", "w", "n", " ", "a", "c", "t", "i", "o", "n", ":", " ">>
TypeError == <<"T", "y", "p", "e", "E", "r", "r", "o", "r">>

\* The supplied path as the string it was: its segments joined by "/".
RECURSIVE RelString(_)
RelString(p) ==
    IF p = <<>> THEN <<>>
    ELSE IF Len(p) = 1 THEN Head(p)
    ELSE Head(p) \o <<"/">> \o RelString(Tail(p))

Call(op, p) == [op |-> op, path |-> p]

\* The stat calls of listFiles, one per entry that is not a directory.
RECURSIVE StatCalls(_, _, _)
StatCalls(f, dir, names) ==
    IF names = <<>> THEN <<>>
    ELSE (IF IsDir(f, Append(dir, Head(names))) THEN <<>>
          ELSE <<Call("stat", Append(dir, Head(names)))>>)
         \o StatCalls(f, dir, Tail(names))

\* Mutant: a directory is given the size stat reports for it.
FileDescriptor_StatSize(f, dir, name) ==
    LET p == Append(dir, name) IN
    [name |-> name, isDirectory |-> f[p].isDir, size |-> StatSize(f, p)]

FileDescriptor(f, dir, name) ==
    LET p == Append(dir, name) IN
    [name |-> name, isDirectory |-> f[p].isDir,
     size |-> IF f[p].isDir THEN 0 ELSE StatSize(f, p)]

\* Mutant: the directory is made when it is missing.
listFiles_Mkdir(params, root, f) ==
    LET subdir == IF IsSome(params) /\ IsSome(Get(params).subdir)
                  THEN Get(Get(params).subdir) ELSE <<>>
        targetPath == PathJoin(root, subdir)
        md == MkdirP(f, targetPath, 1)
        rd == Readdir(md.fs, targetPath)
    IN  IF ~GuardPasses(targetPath, root) THEN Thrown(AccessDenied, f, <<>>)
        ELSE IF IsSome(md.err)
             THEN Thrown(Get(md.err), md.fs, <<Call("mkdir", targetPath)>>)
        ELSE IF IsSome(rd.err)
             THEN Thrown(Get(rd.err), md.fs, <<Call("readdir", targetPath)>>)
        ELSE Returned([i \in 1..Len(rd.names) |->
                          FileDescriptor(md.fs, targetPath, rd.names[i])],
                      md.fs,
                      <<Call("readdir", targetPath)>>
                          \o StatCalls(md.fs, targetPath, rd.names))

listFiles(params, root, f) ==
    LET subdir == IF IsSome(params) /\ IsSome(Get(params).subdir)
                  THEN Get(Get(params).subdir) ELSE <<>>
        targetPath == PathJoin(root, subdir)
        rd == Readdir(f, targetPath)
    IN  IF ~GuardPasses(targetPath, root) THEN Thrown(AccessDenied, f, <<>>)
        ELSE IF IsSome(rd.err)
             THEN Thrown(Get(rd.err), f, <<Call("readdir", targetPath)>>)
        ELSE Returned([i \in 1..Len(rd.names) |-> FileDescriptor(f, targetPath, rd.names[i])],
                      f,
                      <<Call("readdir", targetPath)>> \o StatCalls(f, targetPath, rd.names))

\* Mutant: the file is read without asking whether it exists.
readFile_NoExistsCheck(params, root, f) ==
    IF ~IsSome(params) \/ ~IsSome(Get(params).filePath) THEN Thrown(TypeError, f, <<>>)
    ELSE LET filePath == Get(Get(params).filePath)
             targetPath == PathJoin(root, filePath)
         IN  IF ~GuardPasses(targetPath, root) THEN Thrown(AccessDenied, f, <<>>)
             ELSE IF ~Exists(f, targetPath)
                  THEN Thrown(ENOENT, f, <<Call("read", targetPath)>>)
             ELSE IF f[targetPath].isDir
                  THEN Thrown(EISDIR, f, <<Call("read", targetPath)>>)
             ELSE Returned([data |-> Base64Encode(f[targetPath].bytes),
                            size |-> Len(f[targetPath].bytes)],
                           f,
                           <<Call("read", targetPath)>>)

readFile(params, root, f) ==
    IF ~IsSome(params) \/ ~IsSome(Get(params).filePath) THEN Thrown(TypeError, f, <<>>)
    ELSE LET filePath == Get(Get(params).filePath)
             targetPath == PathJoin(root, filePath)
         IN  IF ~GuardPasses(targetPath, root) THEN Thrown(AccessDenied, f, <<>>)
             ELSE IF ~Exists(f, targetPath)
                  THEN Thrown(FileNotFound \o RelString(filePath), f,
                              <<Call("exists", targetPath)>>)
             ELSE IF f[targetPath].isDir
                  THEN Thrown(EISDIR, f,
                              <<Call("exists", targetPath), Call("read", targetPath)>>)
             ELSE Returned([data |-> Base64Encode(f[targetPath].bytes),
                            size |-> Len(f[targetPath].bytes)],
                           f,
                           <<Call("exists", targetPath), Call("read", targetPath)>>)

\* Mutant: the bytes are appended to what the file holds.
writeFile_Append(params, root, f) ==
    IF ~IsSome(params) \/ ~IsSome(Get(params).filePath) THEN Thrown(TypeError, f, <<>>)
    ELSE LET filePath == Get(Get(params).filePath)
             targetPath == PathJoin(root, filePath)
             parent == PathDirname(targetPath)
             md == MkdirP(f, parent, 1)
             buffer == Base64Decode(Get(Get(params).data))
             old == IF IsFile(md.fs, targetPath) THEN md.fs[targetPath].bytes ELSE <<>>
         IN  IF ~GuardPasses(targetPath, root) THEN Thrown(AccessDenied, f, <<>>)
             ELSE IF IsSome(md.err)
                  THEN Thrown(Get(md.err), md.fs, <<Call("mkdir", parent)>>)
             ELSE IF ~IsSome(Get(params).data)
                  THEN Thrown(TypeError, md.fs, <<Call("mkdir", parent)>>)
             ELSE IF IsDir(md.fs, targetPath)
                  THEN Thrown(EISDIR, md.fs,
                              <<Call("mkdir", parent), Call("write", targetPath)>>)
             ELSE Returned([written |-> Len(buffer)],
                           FsPut(md.fs, targetPath, FileEntry(old \o buffer)),
                           <<Call("mkdir", parent), Call("write", targetPath)>>)

writeFile(params, root, f) ==
    IF ~IsSome(params) \/ ~IsSome(Get(params).filePath) THEN Thrown(TypeError, f, <<>>)
    ELSE LET filePath == Get(Get(params).filePath)
             targetPath == PathJoin(root, filePath)
             parent == PathDirname(targetPath)
             md == MkdirP(f, parent, 1)
             buffer == Base64Decode(Get(Get(params).data))
         IN  IF ~GuardPasses(targetPath, root) THEN Thrown(AccessDenied, f, <<>>)
             ELSE IF IsSome(md.err)
                  THEN Thrown(Get(md.err), md.fs, <<Call("mkdir", parent)>>)
             ELSE IF ~IsSome(Get(params).data)
                  THEN Thrown(TypeError, md.fs, <<Call("mkdir", parent)>>)
             ELSE IF IsDir(md.fs, targetPath)
                  THEN Thrown(EISDIR, md.fs,
                              <<Call("mkdir", parent), Call("write", targetPath)>>)
             ELSE Returned([written |-> Len(buffer)],
                           FsPut(md.fs, targetPath, FileEntry(buffer)),
                           <<Call("mkdir", parent), Call("write", targetPath)>>)

\* Mutant: the total counts the size of every entry, directories included.
RECURSIVE TotalSize_All(_, _, _)
TotalSize_All(f, dir, names) ==
    IF names = <<>> THEN 0
    ELSE StatSize(f, Append(dir, Head(names))) + TotalSize_All(f, dir, Tail(names))

\* The running total of getCacheInfo: the sizes of the entries that are files.
RECURSIVE TotalSize(_, _, _)
TotalSize(f, dir, names) ==
    IF names = <<>> THEN 0
    ELSE (IF IsFile(f, Append(dir, Head(names)))
          THEN StatSize(f, Append(dir, Head(names))) ELSE 0)
         + TotalSize(f, dir, Tail(names))

InfoLimit == 50
PreviewLimit == 20

\* Array.prototype.slice(0, n).
Slice(s, n) == SubSeq(s, 1, IF Len(s) < n THEN Len(s) ELSE n)

getCacheInfo(root, f) ==
    LET rd == Readdir(f, root) IN
    IF IsSome(rd.err) THEN Thrown(Get(rd.err), f, <<Call("readdir", root)>>)
    ELSE Returned([path |-> root, fileCount |-> Len(rd.names),
                   totalSize |-> TotalSize(f, root, rd.names),
                   files |-> Slice(rd.names, InfoLimit)],
                  f,
                  <<Call("readdir", root)>>
                    \o [i \in 1..Len(rd.names) |-> Call("stat", Append(root, rd.names[i]))])

\* ------------------------------------------------------------------ connection
\* A WebSocket object: its readyState and what it has transmitted so far.
NoSocket == [rs |-> Null, out |-> <<>>]
NewSocket == [rs |-> "CONNECTING", out |-> <<>>]

\* JSON.stringify of an object whose values are optional: undefined values
\* leave no key.
Stringify(m) == [k \in {k \in DOMAIN m : IsSome(m[k])} |-> Get(m[k])]

\* Mutant: the message is transmitted whatever the socket's state.
send_NoGate(w, msg) == [w EXCEPT !.out = Append(@, Stringify(msg))]

\* send(msg) on socket w: transmit only when w is open.
send(w, msg) ==
    IF w.rs = "OPEN" THEN [w EXCEPT !.out = Append(@, Stringify(msg))] ELSE w

\* Mutant: the timer is armed without looking for a pending one.
scheduleReconnect_NoGuard(rt, tm) ==
    [reconnectTimeout |-> "timer", timers |-> tm + 1]

\* scheduleReconnect(): arm the timer unless one is pending.
scheduleReconnect(rt, tm) ==
    IF rt # Null THEN [reconnectTimeout |-> rt, timers |-> tm]
    ELSE [reconnectTimeout |-> "timer", timers |-> tm + 1]

\* Mutant: an unmatched action falls through to getCacheInfo.
Dispatch_NoDefault(action, params, root, f) ==
    CASE action = "listFiles" -> listFiles(params, root, f)
      [] action = "readFile" -> readFile(params, root, f)
      [] action = "writeFile" -> writeFile(params, root, f)
      [] OTHER -> getCacheInfo(root, f)

\* The dispatch of handleRequest: the operation the action names.
Dispatch(action, params, root, f) ==
    CASE action = "listFiles" -> listFiles(params, root, f)
      [] action = "readFile" -> readFile(params, root, f)
      [] action = "writeFile" -> writeFile(params, root, f)
      [] action = "getCacheInfo" -> getCacheInfo(root, f)
      [] OTHER -> Thrown(UnknownAction, f, <<>>)

\* Mutant: the failure response forgets the requestId.
Envelope_NoIdOnError(requestId, r) ==
    IF r.ok
    THEN [type |-> Some("response"), requestId |-> requestId,
          success |-> Some(TRUE), data |-> r.data]
    ELSE [type |-> Some("response"), requestId |-> None,
          success |-> Some(FALSE), error |-> r.error]

\* The response envelope handleRequest builds from the operation's outcome.
Envelope(requestId, r) ==
    IF r.ok
    THEN [type |-> Some("response"), requestId |-> requestId,
          success |-> Some(TRUE), data |-> r.data]
    ELSE [type |-> Some("response"), requestId |-> requestId,
          success |-> Some(FALSE), error |-> r.error]

\* Mutant: a failure is not caught, so no response is sent for it.
handleRequest_Uncaught(msg, w, root, f) ==
    LET r == Dispatch(msg.action, msg.params, root, f)
        env == Envelope(msg.requestId, r)
    IN  [ws |-> IF r.ok THEN send(w, env) ELSE w, fs |-> r.fs, calls |-> r.calls,
         attempt |-> IF r.ok THEN Some([msg |-> Stringify(env), rs |-> w.rs]) ELSE None]

\* Mutant: the handler returns before its response is sent.
handleRequest_Deferred(msg, w, root, f) ==
    LET r == Dispatch(msg.action, msg.params, root, f)
        env == Envelope(msg.requestId, r)
    IN  [ws |-> w, fs |-> r.fs, calls |-> r.calls,
         attempt |-> Some([msg |-> Stringify(env), rs |-> w.rs])]

\* handleRequest(msg) with socket w: run the operation, send the response.
handleRequest(msg, w, root, f) ==
    LET r == Dispatch(msg.action, msg.params, root, f)
        env == Envelope(msg.requestId, r)
    IN  [ws |-> send(w, env), fs |-> r.fs, calls |-> r.calls,
         attempt |-> Some([msg |-> Stringify(env), rs |-> w.rs])]

\* ------------------------------------------------------------------ inputs
\* The command-line argument: missing, a path that does not exist, the cache
\* directory, and a path that may name a file.
Args == {<<>>, <<SegA, SegQ>>, <<SegA, SegB>>, <<SegA, SegB, SegX>>}

TopDirs == (<<>> :> DirEntry) @@ (<<SegA>> :> DirEntry) @@ (<<SegA, SegB>> :> DirEntry)

\* The file systems the agent may be started on: an empty cache directory, and
\* one holding a file and a directory beside a sibling /a/bc of the cache.
Populated ==
    TopDirs @@ (<<SegA, SegB, SegX>> :> FileEntry(<<255>>))
            @@ (<<SegA, SegB, SegBC>> :> DirEntry)
            @@ (<<SegA, SegBC>> :> FileEntry(<<0>>))

InitialFileSystems == {TopDirs, Populated}

\* A cache directory with more entries than the register preview and the
\* getCacheInfo list hold: the populated one and the files n00 .. n49.
ManyNames ==
    {<<"n", a, b>> : a \in {"0", "1", "2", "3", "4"},
                     b \in {"0", "1", "2", "3", "4", "5", "6", "7", "8", "9"}}

LargeFileSystem ==
    Populated @@ [q \in {<<SegA, SegB, n>> : n \in ManyNames} |-> FileEntry(<<0, 255>>)]

LargeFileSystems == {Populated, LargeFileSystem}

\* The supplied paths (subdir / filePath): "", "x", "bc/x", "bc/../x", and the
\* escapes "../bc" (a sibling of the root whose name extends the root's) and
\* ".." (the root's parent).
PathEmpty == <<>>
PathX == <<SegX>>
PathNested == <<SegBC, SegX>>
PathDotted == <<SegBC, DOTDOT, SegX>>
PathSibling == <<DOTDOT, SegBC>>
PathParent == <<DOTDOT>>
\* "bc", a directory of the populated cache.
PathDir == <<SegBC>>
InputPaths == {PathEmpty, PathX, PathNested, PathDotted, PathSibling, PathParent}

\* The payloads of writeFile: the base64 text of some byte sequences.
InputBytes == {<<>>, <<0, 255>>}
InputData == {Base64Encode(b) : b \in InputBytes}

Params(p, d) == Some([subdir |-> p, filePath |-> p, data |-> d])

Message(type, token, requestId, action, params) ==
    [parses |-> TRUE, type |-> type, sessionToken |-> token,
     requestId |-> requestId, action |-> action, params |-> params]

Request(id, action, params) == Message("request", None, Some(id), action, params)

\* A payload JSON.parse rejects (or one that parses to null).
Garbage == [Message("", None, None, "", None) EXCEPT !.parses = FALSE]

\* The messages that are not requests.
Notices ==
    {Garbage}
    \cup {Message("registered", t, None, "", None) : t \in {None, Some("T1"), Some("T2")}}
    \cup {Message(type, None, None, "", None) : type \in {"error", "ping"}}

\* The inbound payloads of the specification Spec: two request ids, and one
\* request for each way a request can end (a result, access denied, file not
\* found, missing params, a file-system error, an unknown action).
Payloads ==
    Notices
    \cup {Message("request", None, None, "getCacheInfo", None)}
    \cup {Request(id, "listFiles", None) : id \in {"r1", "r2"}}
    \cup {Request(id, "readFile", params) :
            id \in {"r1", "r2"},
            params \in {None, Params(Some(PathX), None), Params(Some(PathParent), None),
                        Params(Some(PathEmpty), None)}}
    \cup {Request(id, "writeFile", Params(Some(PathX), Some(Base64Encode(<<0, 255>>)))) :
            id \in {"r1", "r2"}}
    \cup {Request(id, action, None) : id \in {"r1", "r2"}, action \in {"getCacheInfo", "deleteFile"}}

\* The inbound payloads of the specification SpecFiles: one request id, and
\* every file operation on every supplied path, and the listing of "bc".
FilePayloads ==
    {Request("r1", action, params) :
            action \in {"listFiles", "readFile"},
            params \in {Params(Some(p), None) : p \in InputPaths} \cup {None}}
    \cup {Request("r1", "listFiles", Params(Some(PathDir), None))}
    \cup {Request("r1", "writeFile", Params(Some(p), d)) :
            p \in InputPaths, d \in {Some(t) : t \in InputData} \cup {None}}
    \cup {Request("r1", "getCacheInfo", None)}

\* The requests about the cache root, and a write below it.
ListingPayloads ==
    {Message("registered", Some("T1"), None, "", None)}
    \cup {Request("r1", "getCacheInfo", None), Request("r1", "listFiles", None)}
    \cup {Request("r1", "listFiles", Params(Some(PathNested), None))}
    \cup {Request("r1", "writeFile",
                  Params(Some(PathNested), Some(Base64Encode(<<0, 255>>))))}

\* Byte sequences of every length class of the base64 coding: empty, one and
\* two bytes (padded), a full group, and a group and a padded rest.
ByteSamples == {<<>>, <<255>>, <<0, 255>>, <<255, 0, 128>>, <<1, 2, 3, 250>>}

\* Writes of every sample to paths inside the root, and reads of these paths.
RoundTripPayloads ==
    {Request("r1", "writeFile", Params(Some(p), Some(Base64Encode(b)))) :
        p \in {PathX, PathNested, PathDotted}, b \in ByteSamples}
    \cup {Request("r1", "readFile", Params(Some(p), None)) :
            p \in {PathX, PathNested, PathDotted}}

AgentIds == {"id1", "id2"}

\* ------------------------------------------------------------------ state
VARIABLES
    phase,             \* "start", "running" or "exited"
    exitCode,          \* the process's exit status once exited
    argv,              \* process.argv[2]
    fs,                \* the file system
    resolvedPath,      \* the cache root
    cacheFiles,        \* the root's listing taken at startup
    ws,                \* the current socket (NoSocket before the first connect)
    orphans,           \* sockets not closed that ws no longer refers to
    sessionToken,
    reconnectTimeout,  \* Null or the handle of the armed timer
    timers,            \* timer callbacks pending in the event loop
    nRecv,             \* inbound messages delivered so far
    recvIds,           \* requestIds of the requests delivered on the current socket
    conn,              \* history of the current socket: opened, acknowledged
    sinceClose,        \* connect() calls since the last close event
    wrote,             \* per path, the data text of the last successful writeFile
    last               \* what the last step handled, and what it did

vars == <<phase, exitCode, argv, fs, resolvedPath, cacheFiles, ws, orphans,
          sessionToken, reconnectTimeout, timers, nRecv, recvIds, conn,
          sinceClose, wrote, last>>

NoConn == [opened |-> FALSE, acked |-> FALSE]

Did(ev, action, path, target, calls, attempt) ==
    [ev |-> ev, action |-> action, path |-> path, target |-> target,
     calls |-> calls, attempt |-> attempt]

\* The process before its first statement, on one of the given file systems.
Start(fileSystems) ==
    /\ phase = "start"
    /\ exitCode = 0
    /\ argv \in Args
    /\ fs \in fileSystems
    /\ resolvedPath = <<>>
    /\ cacheFiles = <<>>
    /\ ws = NoSocket
    /\ orphans = 0
    /\ sessionToken = Null
    /\ reconnectTimeout = Null
    /\ timers = 0
    /\ nRecv = 0
    /\ recvIds = <<>>
    /\ conn = NoConn
    /\ sinceClose = 0
    /\ wrote = <<>>
    /\ last = Did("none", "", None, None, <<>>, None)

Init == Start(InitialFileSystems)

\* ------------------------------------------------------------------ actions
Live(w) == w.rs \in {"CONNECTING", "OPEN", "CLOSING"}

\* connect(): a new socket replaces ws; the old one, if not closed, lives on.
connect(w, orph) ==
    [ws |-> NewSocket, orphans |-> IF Live(w) THEN orph + 1 ELSE orph]

\* The path an operation resolves, when it gets as far as resolving one.
TargetOf(msg, root) ==
    IF msg.action = "listFiles"
    THEN Some(PathJoin(root, IF IsSome(msg.params) /\ IsSome(Get(msg.params).subdir)
                             THEN Get(Get(msg.params).subdir) ELSE <<>>))
    ELSE IF msg.action \in {"readFile", "writeFile"}
            /\ IsSome(msg.params) /\ IsSome(Get(msg.params).filePath)
         THEN Some(PathJoin(root, Get(Get(msg.params).filePath)))
         ELSE None

\* The path a request supplies, as supplied.
PathOf(msg) ==
    IF ~IsSome(msg.params) THEN None
    ELSE IF msg.action = "listFiles" THEN Get(msg.params).subdir
    ELSE IF msg.action \in {"readFile", "writeFile"} THEN Get(msg.params).filePath
    ELSE None

\* Mutant: the failed validation exits with status 0.
Startup_ExitZero ==
    /\ phase = "start"
    /\ LET resolved == PathResolve(argv)
           rd == Readdir(fs, resolved)
           c == connect(ws, orphans)
       IN  IF argv = <<>> \/ ~Exists(fs, resolved) \/ IsSome(rd.err)
           THEN /\ phase' = "exited"
                /\ exitCode' = 0
                /\ resolvedPath' = IF argv = <<>> THEN resolvedPath ELSE resolved
                /\ UNCHANGED <<cacheFiles, ws, orphans, sinceClose>>
           ELSE /\ phase' = "running"
                /\ resolvedPath' = resolved
                /\ cacheFiles' = rd.names
                /\ ws' = c.ws
                /\ orphans' = c.orphans
                /\ sinceClose' = sinceClose + 1
                /\ UNCHANGED exitCode
    /\ last' = Did("startup", "", None, None, <<>>, None)
    /\ UNCHANGED <<argv, fs, sessionToken, reconnectTimeout, timers, nRecv,
                   recvIds, conn, wrote>>

\* Argument validation and the first connect().
Startup ==
    /\ phase = "start"
    /\ LET resolved == PathResolve(argv)
           rd == Readdir(fs, resolved)
           c == connect(ws, orphans)
       IN  IF argv = <<>> \/ ~Exists(fs, resolved) \/ IsSome(rd.err)
           THEN /\ phase' = "exited"
                /\ exitCode' = 1
                /\ resolvedPath' = IF argv = <<>> THEN resolvedPath ELSE resolved
                /\ UNCHANGED <<cacheFiles, ws, orphans, sinceClose>>
           ELSE /\ phase' = "running"
                /\ resolvedPath' = resolved
                /\ cacheFiles' = rd.names
                /\ ws' = c.ws
                /\ orphans' = c.orphans
                /\ sinceClose' = sinceClose + 1
                /\ UNCHANGED exitCode
    /\ last' = Did("startup", "", None, None, <<>>, None)
    /\ UNCHANGED <<argv, fs, sessionToken, reconnectTimeout, timers, nRecv,
                   recvIds, conn, wrote>>

\* Mutant: the registration carries the whole listing.
Register_NoSlice(agentId) ==
    [type |-> Some("register"), agentId |-> Some(agentId),
     cachePath |-> Some(resolvedPath),
     cacheFiles |-> Some(cacheFiles)]

\* The registration message of the open handler.
Register(agentId) ==
    [type |-> Some("register"), agentId |-> Some(agentId),
     cachePath |-> Some(resolvedPath),
     cacheFiles |-> Some(Slice(cacheFiles, PreviewLimit))]

\* 'open': the handshake completed; the agent registers.
SockOpen ==
    /\ phase = "running"
    /\ ws.rs = "CONNECTING"
    /\ \E agentId \in AgentIds :
          LET w == [ws EXCEPT !.rs = "OPEN"] IN
          /\ ws' = send(w, Register(agentId))
          /\ last' = Did("open", "", None, None, <<>>,
                         Some([msg |-> Stringify(Register(agentId)), rs |-> w.rs]))
    /\ conn' = [opened |-> TRUE, acked |-> FALSE]
    /\ UNCHANGED <<phase, exitCode, argv, fs, resolvedPath, cacheFiles, orphans,
                   sessionToken, reconnectTimeout, timers, nRecv, recvIds, sinceClose,
                   wrote>>

\* Mutant: an 'error' message is answered.
handleMessage_ReplyToError(msg, tok, w, root, f) ==
    CASE msg.type = "registered" ->
            [sessionToken |-> IF IsSome(msg.sessionToken)
                              THEN Get(msg.sessionToken) ELSE Undefined,
             ws |-> w, fs |-> f, calls |-> <<>>, attempt |-> None]
      [] msg.type = "request" ->
            [sessionToken |-> tok] @@ handleRequest(msg, w, root, f)
      [] msg.type = "error" ->
            [sessionToken |-> tok] @@ handleRequest(msg, w, root, f)
      [] OTHER ->
            [sessionToken |-> tok, ws |-> w, fs |-> f, calls |-> <<>>, attempt |-> None]

\* handleMessage(msg) for a parsed message: the token, the socket, the file
\* system after it, and what it did.
handleMessage(msg, tok, w, root, f) ==
    CASE msg.type = "registered" ->
            [sessionToken |-> IF IsSome(msg.sessionToken)
                              THEN Get(msg.sessionToken) ELSE Undefined,
             ws |-> w, fs |-> f, calls |-> <<>>, attempt |-> None]
      [] msg.type = "request" ->
            [sessionToken |-> tok] @@ handleRequest(msg, w, root, f)
      [] OTHER ->
            [sessionToken |-> tok, ws |-> w, fs |-> f, calls |-> <<>>, attempt |-> None]

\* 'message': parse the payload and handle it; a payload that does not parse
\* is logged and dropped.
SockMessage(payloads) ==
    /\ phase = "running"
    /\ ws.rs \in {"OPEN", "CLOSING"}
    /\ conn.opened
    /\ nRecv < MaxMsgs
    /\ \E p \in payloads :
          LET h == IF p.parses
                   THEN handleMessage(p, sessionToken, ws, resolvedPath, fs)
                   ELSE [sessionToken |-> sessionToken, ws |-> ws, fs |-> fs,
                         calls |-> <<>>, attempt |-> None]
              isReq == p.parses /\ p.type = "request"
          IN  /\ sessionToken' = h.sessionToken
              /\ ws' = h.ws
              /\ fs' = h.fs
              /\ conn' = IF p.parses /\ p.type = "registered"
                         THEN [conn EXCEPT !.acked = TRUE] ELSE conn
              /\ recvIds' = IF isReq THEN Append(recvIds, p.requestId) ELSE recvIds
              /\ wrote' = IF isReq /\ p.action = "writeFile"
                                  /\ Get(h.attempt).msg.success
                          THEN LET t == PathJoin(resolvedPath, Get(Get(p.params).filePath))
                               IN  [q \in DOMAIN wrote \cup {t} |->
                                      IF q = t THEN Get(Get(p.params).data) ELSE wrote[q]]
                          ELSE wrote
              /\ last' = Did(IF p.parses THEN p.type ELSE "garbage",
                             IF isReq THEN p.action ELSE "",
                             IF isReq THEN PathOf(p) ELSE None,
                             IF isReq THEN TargetOf(p, resolvedPath) ELSE None,
                             h.calls, h.attempt)
    /\ nRecv' = nRecv + 1
    /\ UNCHANGED <<phase, exitCode, argv, resolvedPath, cacheFiles, orphans,
                   reconnectTimeout, timers, sinceClose>>

\* 'error': the handshake or the connection failed; the handler only logs.
\* The library emits 'close' next.
SockError ==
    /\ phase = "running"
    /\ ws.rs \in {"CONNECTING", "OPEN"}
    /\ ws' = [ws EXCEPT !.rs = "CLOSING"]
    /\ last' = Did("error-event", "", None, None, <<>>, None)
    /\ UNCHANGED <<phase, exitCode, argv, fs, resolvedPath, cacheFiles, orphans,
                   sessionToken, reconnectTimeout, timers, nRecv, recvIds, conn,
                   sinceClose, wrote>>

\* The peer starts the closing handshake, or the connection is lost: no
\* handler runs until 'close'.
SockClosing ==
    /\ phase = "running"
    /\ ws.rs = "OPEN"
    /\ ws' = [ws EXCEPT !.rs = "CLOSING"]
    /\ last' = Did("closing", "", None, None, <<>>, None)
    /\ UNCHANGED <<phase, exitCode, argv, fs, resolvedPath, cacheFiles, orphans,
                   sessionToken, reconnectTimeout, timers, nRecv, recvIds, conn,
                   sinceClose, wrote>>

\* Mutant: the close handler keeps the token.
onClose_KeepToken(tok, rt, tm) ==
    [sessionToken |-> tok] @@ scheduleReconnect(rt, tm)

\* Mutant: the close handler schedules no reconnect.
onClose_NoReconnect(tok, rt, tm) ==
    [sessionToken |-> Null, reconnectTimeout |-> rt, timers |-> tm]

\* The close handler: clear the token, schedule the reconnect.
onClose(tok, rt, tm) ==
    [sessionToken |-> Null] @@ scheduleReconnect(rt, tm)

\* 'close': the socket is closed.
SockClose ==
    /\ phase = "running"
    /\ ws.rs = "CLOSING"
    /\ LET h == onClose(sessionToken, reconnectTimeout, timers) IN
          /\ sessionToken' = h.sessionToken
          /\ reconnectTimeout' = h.reconnectTimeout
          /\ timers' = h.timers
    /\ ws' = [ws EXCEPT !.rs = "CLOSED"]
    /\ conn' = NoConn
    /\ sinceClose' = 0
    /\ last' = Did("close", "", None, None, <<>>, None)
    /\ UNCHANGED <<phase, exitCode, argv, fs, resolvedPath, cacheFiles, orphans,
                   nRecv, recvIds, wrote>>

\* The reconnect timer's callback: forget the handle, connect.
onTimer(rt, w, orph) ==
    [reconnectTimeout |-> Null] @@ connect(w, orph)

TimerFire ==
    /\ phase = "running"
    /\ timers > 0
    /\ timers' = timers - 1
    /\ LET h == onTimer(reconnectTimeout, ws, orphans) IN
          /\ reconnectTimeout' = h.reconnectTimeout
          /\ ws' = h.ws
          /\ orphans' = h.orphans
    /\ conn' = NoConn
    /\ recvIds' = <<>>
    /\ sinceClose' = sinceClose + 1
    /\ last' = Did("timer", "", None, None, <<>>, None)
    /\ UNCHANGED <<phase, exitCode, argv, fs, resolvedPath, cacheFiles,
                   sessionToken, nRecv, wrote>>

\* SIGINT: close the socket and exit. The process's memory goes with it; the
\* file system stays.
Sigint ==
    /\ phase = "running"
    /\ phase' = "exited"
    /\ exitCode' = 0
    /\ resolvedPath' = <<>>
    /\ cacheFiles' = <<>>
    /\ ws' = NoSocket
    /\ orphans' = 0
    /\ sessionToken' = Null
    /\ reconnectTimeout' = Null
    /\ timers' = 0
    /\ nRecv' = 0
    /\ recvIds' = <<>>
    /\ conn' = NoConn
    /\ sinceClose' = 0
    /\ last' = Did("sigint", "", None, None, <<>>, None)
    /\ UNCHANGED <<argv, fs, wrote>>

Next ==
    \/ Startup
    \/ SockOpen
    \/ SockMessage(Payloads)
    \/ SockError
    \/ SockClosing
    \/ SockClose
    \/ TimerFire
    \/ Sigint

Spec == Init /\ [][Next]_vars

\* The same program, fed the file-operation requests.
NextFiles ==
    \/ Startup
    \/ SockOpen
    \/ SockMessage(FilePayloads)
    \/ SockError
    \/ SockClosing
    \/ SockClose
    \/ TimerFire
    \/ Sigint

SpecFiles == Init /\ [][NextFiles]_vars

\* The same program on a large cache directory, asked about its root.
InitListing == Start(LargeFileSystems)

NextListing ==
    \/ Startup
    \/ SockOpen
    \/ SockMessage(ListingPayloads)
    \/ SockError
    \/ SockClosing
    \/ SockClose
    \/ TimerFire
    \/ Sigint

SpecListing == InitListing /\ [][NextListing]_vars

\* The same program, fed writes of the byte samples and reads.
NextRoundTrip ==
    \/ Startup
    \/ SockOpen
    \/ SockMessage(RoundTripPayloads)
    \/ SockError
    \/ SockClosing
    \/ SockClose
    \/ TimerFire
    \/ Sigint

SpecRoundTrip == Init /\ [][NextRoundTrip]_vars

\* ------------------------------------------------------------------ properties
PathActions == {"listFiles", "readFile", "writeFile"}
KnownActions == PathActions \cup {"getCacheInfo"}

\* The last step handled a request.
Requested == last.ev = "request" /\ IsSome(last.attempt)
\* The response the last step built (sent or not).
Answer == Get(last.attempt).msg
AnswerSent == ws.rs = "OPEN" /\ ws.out # <<>> /\ ws.out[Len(ws.out)] = Answer

IsResponse(m) == m.type = "response"
Responses(out) == SelectSeq(out, IsResponse)
ResponseIds(out) ==
    LET R == Responses(out) IN
    [i \in 1..Len(R) |-> IF "requestId" \in DOMAIN R[i] THEN Some(R[i].requestId) ELSE None]

\* The last request named a path that resolves outside the root's tree.
EscapingRequest ==
    /\ Requested
    /\ last.action \in PathActions
    /\ IsSome(last.target)
    /\ ~IsInside(Get(last.target), resolvedPath)

\* C1: a listFiles, readFile or writeFile request whose path resolves outside
\* the root's directory tree (an ancestor, or a sibling whose name extends the
\* root's) fails with the access-denied error before any file-system call.
C1_PathConfinement ==
    EscapingRequest =>
        /\ last.calls = <<>>
        /\ Answer.success = FALSE
        /\ "error" \in DOMAIN Answer
        /\ Answer.error = AccessDenied

\* C2: on a connection that stays open, the responses sent are, in order, one
\* per request received, each carrying its request's requestId, and no other.
C2_Correlation ==
    ws.rs = "OPEN" => ResponseIds(ws.out) = recvIds

C2_Witness ==
    /\ ws.rs = "OPEN"
    /\ Len(recvIds) = 2
    /\ recvIds[1] # recvIds[2]
    /\ ResponseIds(ws.out) = recvIds

\* C3: every response sent has exactly one of data and error: data exactly
\* when success is true, error exactly when success is false.
C3_Envelope ==
    \A i \in 1..Len(ws.out) :
        LET m == ws.out[i] IN
        IsResponse(m) =>
            /\ ("data" \in DOMAIN m) # ("error" \in DOMAIN m)
            /\ ("data" \in DOMAIN m) <=> (m.success = TRUE)
            /\ ("error" \in DOMAIN m) <=> (m.success = FALSE)

C3_Witness ==
    /\ Len(Responses(ws.out)) = 2
    /\ Responses(ws.out)[1].success = TRUE
    /\ Responses(ws.out)[2].success = FALSE

\* C4: a request whose operation fails is answered with a success=false
\* response carrying the failure's message; the process keeps running and the
\* socket's state, the connection, the token and the timer are left as they were.
C4_FailuresNotFatal ==
    [][(nRecv' = nRecv + 1 /\ last'.ev = "request") =>
         \A p \in Payloads :
            (/\ p.type = "request"
             /\ p.action = last'.action
             /\ ~Dispatch(p.action, p.params, resolvedPath, fs).ok
             /\ SockMessage({p}))
            => /\ phase' = "running"
               /\ ws'.rs = ws.rs
               /\ conn' = conn
               /\ sessionToken' = sessionToken
               /\ reconnectTimeout' = reconnectTimeout
               /\ timers' = timers
               /\ ws.rs = "OPEN" =>
                    /\ Len(ws'.out) = Len(ws.out) + 1
                    /\ SubSeq(ws'.out, 1, Len(ws.out)) = ws.out
                    /\ LET m == ws'.out[Len(ws'.out)] IN
                          /\ IsResponse(m)
                          /\ m.success = FALSE
                          /\ "error" \in DOMAIN m
                          /\ m.error = Get(Dispatch(p.action, p.params, resolvedPath, fs).error)
      ]_vars

\* A failed request was answered, and the next request on the same connection
\* was served.
C4_Witness ==
    /\ ws.rs = "OPEN"
    /\ Len(Responses(ws.out)) = 2
    /\ Responses(ws.out)[1].success = FALSE
    /\ Responses(ws.out)[2].success = TRUE

TokenSet == sessionToken \notin {Null, Undefined}
\* The connection is open: its 'open' event was handled, its 'close' event not yet.
ConnectionOpen == conn.opened /\ ws.rs \in {"OPEN", "CLOSING"}

C6_SingleReconnect ==
    /\ timers <= 1
    /\ (IF Live(ws) THEN 1 ELSE 0) + orphans <= 1
    /\ sinceClose <= 1
    /\ (phase = "running" /\ ws.rs = "CLOSED") =>
          (timers = 1 /\ reconnectTimeout # Null /\ sinceClose = 0)
    /\ (phase = "running" /\ Live(ws)) =>
          (timers = 0 /\ reconnectTimeout = Null /\ sinceClose = 1)
    /\ scheduleReconnect("timer", timers) = [reconnectTimeout |-> "timer", timers |-> timers]

\* A close was followed by the timer's one connection attempt.
C6_Witness ==
    /\ last.ev = "timer"
    /\ Live(ws)
    /\ timers = 0
    /\ sinceClose = 1

\* The reconnect timer fires once armed, and the library emits 'close' for a
\* socket that failed or is closing.
SpecLive == Spec /\ WF_vars(TimerFire) /\ WF_vars(SockClose)

\* C7: while the agent is not shut down, a closed or failed connection is
\* always followed by a new connection attempt; an 'error' event does not end
\* the process.
C7_Recovery ==
    /\ (phase = "running" /\ ws.rs \in {"CLOSING", "CLOSED"})
          ~> (ws.rs = "CONNECTING" \/ phase = "exited")
    /\ [][last'.ev = "error-event" => phase' = "running"]_vars

\* A connection attempt failed before opening and the timer made the next one.
C7_Witness ==
    /\ last.ev = "timer"
    /\ ws.rs = "CONNECTING"
    /\ nRecv = 0
    /\ phase = "running"

\* C8: a send attempted while the socket is not open transmits nothing and
\* changes nothing; every transmission is the message attempted in the same
\* step, so a dropped message is never transmitted later.
C8_SendGate ==
    /\ [][(IsSome(last'.attempt) /\ Get(last'.attempt).rs # "OPEN") =>
            /\ ws' = ws
            /\ sessionToken' = sessionToken
            /\ reconnectTimeout' = reconnectTimeout
            /\ timers' = timers
            /\ phase' = "running"]_vars
    /\ [][ws'.out # ws.out =>
            \/ ws'.out = <<>>
            \/ /\ IsSome(last'.attempt)
               /\ Get(last'.attempt).rs = "OPEN"
               /\ ws'.out = Append(ws.out, Get(last'.attempt).msg)]_vars

\* A request arrived on a closing socket and its response was dropped.
C8_Dropped == Requested /\ Get(last.attempt).rs = "CLOSING" /\ ws.rs = "CLOSING"

\* C9: a payload that does not parse, and a 'registered', 'error' or unknown
\* message, cause no outbound message and no file-system access; what an open
\* socket has transmitted is one 'register' and one 'response' per request.
C9_NoReplyToNotices ==
    /\ [][(nRecv' = nRecv + 1 /\ last'.ev # "request") =>
            /\ ws' = ws
            /\ fs' = fs
            /\ last'.calls = <<>>
            /\ last'.attempt = None]_vars
    /\ [](ConnectionOpen =>
            /\ ws.out # <<>>
            /\ ws.out[1].type = "register"
            /\ \A i \in 2..Len(ws.out) : IsResponse(ws.out[i])
            /\ Len(ws.out) <= 1 + Len(recvIds)
            /\ ws.rs = "OPEN" => Len(ws.out) = 1 + Len(recvIds))

\* Both message slots went to non-requests; only the register was sent.
C9_Witness ==
    /\ ws.rs = "OPEN"
    /\ nRecv = 2
    /\ recvIds = <<>>
    /\ last.ev \in {"garbage", "error", "ping", "registered"}
    /\ Len(ws.out) = 1

\* C10: a request for an action outside the four operations is answered with
\* success=false, an error message and no data, without any file-system call.
C10_UnknownAction ==
    (Requested /\ last.action \notin KnownActions) =>
        /\ Answer.success = FALSE
        /\ "error" \in DOMAIN Answer
        /\ "data" \notin DOMAIN Answer
        /\ last.calls = <<>>
        /\ ws.rs = "OPEN" => AnswerSent

C10_Witness ==
    /\ Requested
    /\ last.action = "deleteFile"
    /\ AnswerSent
\* C11: on every connection that opened, the first message sent is a
\* 'register' carrying the cache root and at most 20 names, each the name of
\* an entry of the root, and no later message is a 'register'; at the open
\* event itself the register is the only message sent. A reconnected socket
\* is registered the same way.
C11_Registration ==
    /\ ConnectionOpen =>
          /\ ws.out # <<>>
          /\ ws.out[1].type = "register"
          /\ ws.out[1].cachePath = resolvedPath
          /\ Len(ws.out[1].cacheFiles) <= 20
          /\ \A i \in 1..Len(ws.out[1].cacheFiles) :
                /\ ws.out[1].cacheFiles[i] \in Children(fs, resolvedPath)
                /\ ws.out[1].cacheFiles[i] = cacheFiles[i]
          /\ Len(ws.out[1].cacheFiles) = 20 \/ Len(ws.out[1].cacheFiles) = Len(cacheFiles)
          /\ \A i \in 2..Len(ws.out) : ws.out[i].type # "register"
    /\ last.ev = "open" => Len(ws.out) = 1 /\ ws.out[1] = Get(last.attempt).msg

\* A socket opened by a reconnect (a message had arrived on an earlier one)
\* registered with a preview cut to 20 of the root's 52 names.
C11_Witness ==
    /\ ConnectionOpen
    /\ last.ev = "open"
    /\ nRecv > 0
    /\ Len(cacheFiles) > 20
    /\ Len(ws.out[1].cacheFiles) = 20

\* The last request was of this action and succeeded.
Succeeded(action) ==
    /\ Requested
    /\ last.action = action
    /\ Answer.success

\* C12: a successful readFile of a path whose last successful writeFile
\* carried the base64 of the bytes B (of any length class, the empty one
\* included) returns data that decodes to exactly B and a size of B's length.
C12_RoundTrip ==
    (Succeeded("readFile") /\ Get(last.target) \in DOMAIN wrote) =>
        \A B \in ByteSamples :
            Base64Encode(B) = wrote[Get(last.target)] =>
                /\ Base64Decode(Answer.data.data) = B
                /\ Answer.data.size = Len(B)

\* Four bytes written to "x" were read back through "bc/../x".
C12_Witness ==
    /\ Succeeded("readFile")
    /\ last.path = Some(PathDotted)
    /\ Get(last.target) \in DOMAIN wrote
    /\ wrote[Get(last.target)] = Base64Encode(<<1, 2, 3, 250>>)
    /\ Answer.data.size = 4

\* A character in lower case.
LowerCase(c) ==
    CASE
         c = "A" -> "a" []
         c = "B" -> "b" []
         c = "C" -> "c" []
         c = "D" -> "d" []
         c = "E" -> "e" []
         c = "F" -> "f" []
         c = "G" -> "g" []
         c = "H" -> "h" []
         c = "I" -> "i" []
         c = "J" -> "j" []
         c = "K" -> "k" []
         c = "L" -> "l" []
         c = "M" -> "m" []
         c = "N" -> "n" []
         c = "O" -> "o" []
         c = "P" -> "p" []
         c = "Q" -> "q" []
         c = "R" -> "r" []
         c = "S" -> "s" []
         c = "T" -> "t" []
         c = "U" -> "u" []
         c = "V" -> "v" []
         c = "W" -> "w" []
         c = "X" -> "x" []
         c = "Y" -> "y" []
         c = "Z" -> "z"
      [] OTHER -> c

\* The text has the sub-text in it, whatever the case of the text's letters.
ContainsIgnoringCase(text, sub) ==
    \E i \in 1..(Len(text) - Len(sub) + 1) :
        \A j \in 1..Len(sub) : LowerCase(text[i + j - 1]) = sub[j]

NotFoundText == <<"n", "o", "t", " ", "f", "o", "u", "n", "d">>

\* The step handles a readFile of a path inside the root at which nothing
\* exists.
ReadsMissing ==
    /\ nRecv' = nRecv + 1
    /\ last'.ev = "request"
    /\ last'.action = "readFile"
    /\ IsSome(last'.target)
    /\ IsInside(Get(last'.target), resolvedPath)
    /\ ~Exists(fs, Get(last'.target))

\* C13: a readFile of a path inside the root at which nothing exists is
\* answered success = false with an error text containing "not found"
\* (letters of any case), and leaves the file system as it was.
C13_NotFound ==
    [][ReadsMissing =>
          /\ Get(last'.attempt).msg.success = FALSE
          /\ "error" \in DOMAIN Get(last'.attempt).msg
          /\ ContainsIgnoringCase(Get(last'.attempt).msg.error, NotFoundText)
          /\ fs' = fs]_vars

\* A readFile of "bc/x", which does not exist, was answered "File not found:
\* bc/x".
C13_Witness ==
    /\ Requested
    /\ last.action = "readFile"
    /\ last.path = Some(PathNested)
    /\ ~Exists(fs, Get(last.target))
    /\ Answer.success = FALSE
    /\ Answer.error = FileNotFound \o RelString(PathNested)
    /\ ContainsIgnoringCase(Answer.error, NotFoundText)

\* The sum of the byte lengths of the plain files among the given paths.
RECURSIVE SumOfFileBytes(_)
SumOfFileBytes(P) ==
    IF P = {} THEN 0
    ELSE LET q == CHOOSE r \in P : TRUE
         IN  (IF fs[q].isDir THEN 0 ELSE Len(fs[q].bytes)) + SumOfFileBytes(P \ {q})

\* The paths of the direct children of the root.
RootChildren == {q \in DOMAIN fs : Len(q) = Len(resolvedPath) + 1
                                    /\ SubSeq(q, 1, Len(resolvedPath)) = resolvedPath}

\* C14: a successful getCacheInfo reports as fileCount the number of direct
\* children of the root (files and directories), as totalSize the sum of the
\* byte lengths of the direct children that are plain files, and as files the
\* first min(50, fileCount) names of the root's listing, without repeats.
C14_CacheInfo ==
    Succeeded("getCacheInfo") =>
        LET info == Answer.data
            n == Cardinality(RootChildren)
            listing == Readdir(fs, resolvedPath).names
        IN  /\ info.fileCount = n
            /\ info.totalSize = SumOfFileBytes(RootChildren)
            /\ Len(info.files) = (IF n < 50 THEN n ELSE 50)
            /\ \A i \in 1..Len(info.files) :
                  /\ info.files[i] = listing[i]
                  /\ Append(resolvedPath, info.files[i]) \in RootChildren
            /\ \A i, j \in 1..Len(info.files) : info.files[i] = info.files[j] => i = j

\* getCacheInfo on the root of 52 entries, one a directory with a file in it:
\* 52 counted, 50 listed, the 101 bytes of the root's own files summed.
C14_Witness ==
    /\ Succeeded("getCacheInfo")
    /\ Exists(fs, resolvedPath \o PathNested)
    /\ Answer.data.fileCount = 52
    /\ Len(Answer.data.files) = 50
    /\ Answer.data.totalSize = 101

\* The directory the last listFiles request is about: the root when no subdir
\* was supplied.
ListedDir == IF last.path = None THEN resolvedPath ELSE Get(last.target)

\* The paths of the direct children of a directory.
ChildPaths(dir) ==
    {q \in DOMAIN fs : Len(q) = Len(dir) + 1 /\ SubSeq(q, 1, Len(dir)) = dir}

\* C15: a successful listFiles of a directory inside the root (the root itself
\* when no subdir is supplied) returns one descriptor per direct child of the
\* directory and no other; a descriptor's isDirectory tells whether the child
\* is a directory, and its size is 0 for a directory and the file's byte
\* length otherwise.
C15_ListFiles ==
    (Succeeded("listFiles") /\ IsInside(ListedDir, resolvedPath)) =>
        LET d == Answer.data IN
        /\ Len(d) = Cardinality(ChildPaths(ListedDir))
        /\ \A i \in 1..Len(d) :
              LET q == Append(ListedDir, d[i].name) IN
              /\ q \in ChildPaths(ListedDir)
              /\ d[i].isDirectory = fs[q].isDir
              /\ d[i].size = (IF fs[q].isDir THEN 0 ELSE Len(fs[q].bytes))
        /\ \A i, j \in 1..Len(d) : d[i].name = d[j].name => i = j

\* listFiles without a subdir listed a root holding a file of one byte and a
\* directory with a file in it: two descriptors.
C15_Witness ==
    /\ Succeeded("listFiles")
    /\ last.path = None
    /\ Exists(fs, resolvedPath \o PathNested)
    /\ Len(Answer.data) = 2
    /\ \E i, j \in 1..2 :
          /\ Answer.data[i].isDirectory /\ Answer.data[i].size = 0
          /\ ~Answer.data[j].isDirectory /\ Answer.data[j].size = 1

\* listFiles of "bc" listed the one file written into it.
C15_Subdirectory ==
    /\ Succeeded("listFiles")
    /\ last.path = Some(PathDir)
    /\ Len(Answer.data) = 1
    /\ Answer.data[1].name = SegX
    /\ Answer.data[1].size = 2

\* C16: the first step of a process started without the path argument, or with
\* a path at which nothing exists, ends it with a non-zero exit status, no
\* socket created and nothing sent; the first step of a process started with
\* the path of an existing directory leaves it running with a socket that is
\* connecting, its first connection attempt.
C16_StartupValidation ==
    [][phase = "start" =>
          /\ (argv = <<>> \/ ~Exists(fs, PathResolve(argv))) =>
                /\ phase' = "exited"
                /\ exitCode' # 0
                /\ ws' = NoSocket
                /\ sinceClose' = 0
                /\ orphans' = 0
          /\ (argv # <<>> /\ IsDir(fs, PathResolve(argv))) =>
                /\ phase' = "running"
                /\ ws'.rs = "CONNECTING"
                /\ ws'.out = <<>>
                /\ sinceClose' = 1]_vars

\* Started with a path at which nothing exists, the process exited with
\* status 1 and without a socket.
C16_Witness ==
    /\ phase = "exited"
    /\ last.ev = "startup"
    /\ argv = <<SegA, SegQ>>
    /\ ~Exists(fs, PathResolve(argv))
    /\ exitCode = 1
    /\ ws = NoSocket

\* C17: a listFiles, readFile or writeFile request whose path resolves to the
\* root or inside its tree (with or without "." and ".." segments that stay
\* inside) is never answered with the access-denied error.
C17_NoFalseRejection ==
    (/\ Requested
     /\ last.action \in PathActions
     /\ IsSome(last.target)
     /\ IsInside(Get(last.target), resolvedPath))
    => ~("error" \in DOMAIN Answer /\ Answer.error = AccessDenied)

\* A readFile of "bc/../x", which resolves to the file x of the root,
\* succeeded.
C17_Witness ==
    /\ Succeeded("readFile")
    /\ last.path = Some(PathDotted)
    /\ Get(last.target) = Append(resolvedPath, SegX)
    /\ IsInside(Get(last.target), resolvedPath)

\* The step handles a writeFile of a path inside the root, and it succeeds.
WritesInside ==
    /\ nRecv' = nRecv + 1
    /\ last'.ev = "request"
    /\ last'.action = "writeFile"
    /\ Get(last'.attempt).msg.success
    /\ IsInside(Get(last'.target), resolvedPath)

\* C18: after a successful writeFile of the base64 of the bytes B to a path
\* inside the root, the file at the path holds exactly B, every directory
\* from the root down to the file's parent exists, the response's written is
\* B's length, and everything else that existed is as it was.
C18_WriteEffect ==
    [][WritesInside =>
          LET t == Get(last'.target)
              text == wrote'[t]
          IN  /\ \E B \in InputBytes : Base64Encode(B) = text
              /\ \A B \in InputBytes :
                    Base64Encode(B) = text =>
                       /\ t \in DOMAIN fs'
                       /\ ~fs'[t].isDir
                       /\ fs'[t].bytes = B
                       /\ Get(last'.attempt).msg.data.written = Len(B)
              /\ \A k \in Len(resolvedPath)..(Len(t) - 1) :
                    /\ SubSeq(t, 1, k) \in DOMAIN fs'
                    /\ fs'[SubSeq(t, 1, k)].isDir
              /\ \A q \in DOMAIN fs :
                    (q # t /\ ~fs[q].isDir) => (q \in DOMAIN fs' /\ fs'[q] = fs[q])
              /\ \A q \in DOMAIN fs : fs[q].isDir => (q \in DOMAIN fs' /\ fs'[q].isDir)]_vars

\* Two bytes were written to "bc/x" in a root that had no entry: the
\* directory bc was made and the file holds the two bytes.
C18_Witness ==
    /\ Succeeded("writeFile")
    /\ last.path = Some(PathNested)
    /\ ~Exists(fs, Append(resolvedPath, SegX))
    /\ IsDir(fs, Append(resolvedPath, SegBC))
    /\ fs[Get(last.target)].bytes = <<0, 255>>
    /\ Answer.data.written = 2

\* The empty byte sequence was written to "x": the file is empty.
C18_Overwrite ==
    /\ Succeeded("writeFile")
    /\ last.path = Some(PathX)
    /\ fs[Get(last.target)].bytes = <<>>
    /\ Answer.data.written = 0

\* The i-th response sent on the socket answers the i-th request received on it.
InOrder ==
    LET R == Responses(ws.out) IN
    /\ Len(R) = Len(recvIds)
    /\ \A i \in 1..Len(R) :
          IF IsSome(recvIds[i])
          THEN "requestId" \in DOMAIN R[i] /\ R[i].requestId = Get(recvIds[i])
          ELSE "requestId" \notin DOMAIN R[i]

\* C19: requests run to completion one at a time. In the state a request's
\* handler leaves, its response is already the last message sent on the open
\* socket, so no request is ever pending while another is handled; the
\* responses on a socket are in the order of the requests; the file system
\* changes only in the step that handles a request; and a readFile that
\* arrives after a successful writeFile to the same path returns the bytes
\* that were written.
C19_RunToCompletion ==
    /\ []((Requested /\ ws.rs = "OPEN") =>
             (ws.out # <<>> /\ ws.out[Len(ws.out)] = Answer))
    /\ [](ws.rs = "OPEN" => InOrder)
    /\ []((Succeeded("readFile") /\ Get(last.target) \in DOMAIN wrote) =>
             /\ Base64Decode(Answer.data.data) = Base64Decode(wrote[Get(last.target)])
             /\ Answer.data.size = Len(Base64Decode(wrote[Get(last.target)])))
    /\ [][fs' # fs => (/\ nRecv' = nRecv + 1
                       /\ last'.ev = "request"
                       /\ Len(recvIds') = Len(recvIds) + 1)]_vars

\* A writeFile and then a readFile of the same path, with different request
\* ids, were answered in that order on one socket, the read with the bytes
\* written.
C19_Witness ==
    /\ Succeeded("readFile")
    /\ ws.rs = "OPEN"
    /\ Get(last.target) \in DOMAIN wrote
    /\ Len(recvIds) = 2
    /\ recvIds[1] # recvIds[2]
    /\ Len(Responses(ws.out)) = 2
    /\ Responses(ws.out)[1].data.written = 2
    /\ Responses(ws.out)[2] = Answer
    /\ Answer.data.size = 2

ReadOnlyActions == {"listFiles", "readFile", "getCacheInfo"}

\* C20: a step that handles a listFiles, readFile or getCacheInfo request,
\* answered with success or with an error, leaves the file system (the paths
\* that exist, their kinds and their contents) as it was; a step that changes
\* the file system handles a writeFile request.
C20_ReadOnly ==
    [][/\ (/\ nRecv' = nRecv + 1
           /\ last'.ev = "request"
           /\ last'.action \in ReadOnlyActions) => fs' = fs
       /\ fs' # fs => (/\ nRecv' = nRecv + 1
                       /\ last'.ev = "request"
                       /\ last'.action = "writeFile")]_vars

\* A listFiles of "bc/x" in a cache without it asked the file system, failed,
\* and left no bc behind.
C20_Witness ==
    /\ Requested
    /\ last.action = "listFiles"
    /\ last.path = Some(PathNested)
    /\ last.calls # <<>>
    /\ Answer.success = FALSE
    /\ ~Exists(fs, Append(resolvedPath, SegBC))

====
